---- MODULE Spec2Model ----
\* State-machine model of VulkanTest/main.cpp: the bootstrap sequence of
\* HelloTriangleApplication (instance, debug callback, surface, physical
\* device selection, logical device, main loop, cleanup) and the pure
\* device-rating functions it is built from.
EXTENDS Integers, Sequences, FiniteSets, TLC

\* ---------------------------------------------------------------- bounds
\* Longest list of physical devices the driver enumerates.
MaxDevices == 2
\* Longest list of queue families of the device handed to the rating functions.
MaxFamilies == 2
\* Most iterations of the event loop before the window is closed.
MaxPolls == 1

\* ------------------------------------------------------ program constants
enableValidationLayers == TRUE
requestedLayers == <<"VK_LAYER_LUNARG_standard_validation">>
requestedDeviceExtensions == <<"VK_KHR_swapchain">>
VK_EXT_DEBUG_REPORT_EXTENSION_NAME == "VK_EXT_debug_report"
VK_PHYSICAL_DEVICE_TYPE_DISCRETE_GPU == "DISCRETE_GPU"
VK_NULL_HANDLE == 0
Unresolved == -1
DiscreteBonus == 1000
queuePriority == 1
EXIT_SUCCESS == 0
EXIT_FAILURE == 1

\* The messages of the std::runtime_error values the program throws.
UnsupportedLayer == "Validation layer requested but not available"
UnsupportedExtension == "Extension requested but not available"
ContextCreationFailed == "Failed to create instance!"
DebugSinkSetupFailed == "Failed to set up debug callback!"
SurfaceCreationFailed == "Failed to create window surface."
NoDeviceDetected == "Failed to detect GPUs with Vulkan support."
NoSuitableDevice == "Failed to find a suitable GPU"
LogicalDeviceCreationFailed == "Failed to create logical device"

\* ------------------------------------------------ 32-bit integer arithmetic
\* A uint32_t is kept as <<high half, low half>>, each half in 0..2^16-1, so
\* that every value of the type is representable and arithmetic wraps at 2^32.
Half == 2^16

U32(hi, lo) == <<hi, lo>>

\* int -> unsigned int (the usual arithmetic conversion: the value modulo 2^32).
IntToU32(n) == <<(n \div Half) % Half, n % Half>>

\* unsigned + unsigned, modulo 2^32.
AddU32(a, b) ==
    LET lo == a[2] + b[2]
        hi == a[1] + b[1] + (lo \div Half)
    IN  <<hi % Half, lo % Half>>

\* unsigned int -> int on assignment: the two's-complement value.
U32ToInt(u) ==
    IF u[1] >= Half \div 2
        THEN (u[1] - Half) * Half + u[2]
        ELSE u[1] * Half + u[2]

\* score += x for an int score and a uint32_t x.
AddAssignU32(score, x) == U32ToInt(AddU32(IntToU32(score), x))

\* --------------------------------------------------------------- helpers
Range(s) == {s[i] : i \in 1..Len(s)}

SeqsUpTo(S, n) == UNION {[1..k -> S] : k \in 0..n}

\* ------------------------------------------------- what the driver reports
\* One queue family of a device: its queue count, whether its flags hold
\* VK_QUEUE_GRAPHICS_BIT, and the driver's answer to
\* vkGetPhysicalDeviceSurfaceSupportKHR for it and the window surface.
QueueFamilyProperties ==
    [queueCount : {0, 1}, graphicsBit : BOOLEAN, presentSupport : BOOLEAN]

DeviceTypes == {VK_PHYSICAL_DEVICE_TYPE_DISCRETE_GPU, "INTEGRATED_GPU"}

\* Values of limits.maxImageDimension2D: 0, 8192, 16384, 2^31-1001,
\* 2^31-1000, 2^31-1, 2^31 and 2^32-1.
ImageDimensions ==
    { U32(0, 0), U32(0, 8192), U32(0, 16384), U32(32767, 64535),
      U32(32767, 64536), U32(32767, 65535), U32(32768, 0), U32(65535, 65535) }

DeviceExtensionSets ==
    { {"VK_KHR_maintenance1"}, {"VK_KHR_swapchain", "VK_KHR_maintenance1"} }

SurfaceFormatLists == { <<>>, <<"B8G8R8A8_UNORM">> }

PresentModeLists == { <<>>, <<"FIFO">> }

\* Everything the driver answers about one physical device.
PhysicalDevice(type, dim, geom, fams, exts, fmts, modes) ==
    [ deviceType          |-> type,
      maxImageDimension2D |-> dim,
      geometryShader      |-> geom,
      queueFamilies       |-> fams,
      extensions          |-> exts,
      formats             |-> fmts,
      presentModes        |-> modes ]

AllDevices ==
    [ deviceType          : DeviceTypes,
      maxImageDimension2D : ImageDimensions,
      geometryShader      : BOOLEAN,
      queueFamilies       : SeqsUpTo(QueueFamilyProperties, MaxFamilies),
      extensions          : DeviceExtensionSets,
      formats             : SurfaceFormatLists,
      presentModes        : PresentModeLists ]

NoDevice ==
    PhysicalDevice("NONE", U32(0, 0), FALSE, <<>>, {}, <<>>, <<>>)

\* ------------------------------------------------------ QueueFamilyIndices
QueueFamilyIndices(g, p) == [graphicsFamily |-> g, presentFamily |-> p]

isComplete(indices) ==
    indices.graphicsFamily >= 0 /\ indices.presentFamily >= 0

\* The loop of findQueueFamilies from family i (0-based) on.
RECURSIVE ScanQueueFamilies(_, _, _)
ScanQueueFamilies(queueFamilies, i, indices) ==
    IF i >= Len(queueFamilies)
        THEN indices
        ELSE LET queueFamily == queueFamilies[i + 1]
                 g == IF queueFamily.queueCount > 0 /\ queueFamily.graphicsBit
                          THEN i ELSE indices.graphicsFamily
                 p == IF queueFamily.queueCount > 0 /\ queueFamily.presentSupport
                          THEN i ELSE indices.presentFamily
                 found == QueueFamilyIndices(g, p)
             IN  IF isComplete(found)
                     THEN found
                     ELSE ScanQueueFamilies(queueFamilies, i + 1, found)

\* The same loop without its break: every family is visited.
RECURSIVE ScanAllQueueFamilies(_, _, _)
ScanAllQueueFamilies(queueFamilies, i, indices) ==
    IF i >= Len(queueFamilies)
        THEN indices
        ELSE LET queueFamily == queueFamilies[i + 1]
                 g == IF queueFamily.queueCount > 0 /\ queueFamily.graphicsBit
                          THEN i ELSE indices.graphicsFamily
                 p == IF queueFamily.queueCount > 0 /\ queueFamily.presentSupport
                          THEN i ELSE indices.presentFamily
             IN  ScanAllQueueFamilies(queueFamilies, i + 1, QueueFamilyIndices(g, p))

findQueueFamilies_NoBreak(dev) ==
    ScanAllQueueFamilies(dev.queueFamilies, 0,
                         QueueFamilyIndices(Unresolved, Unresolved))

findQueueFamilies(dev) ==
    ScanQueueFamilies(dev.queueFamilies, 0,
                      QueueFamilyIndices(Unresolved, Unresolved))

\* ------------------------------------------------ device extension support
checkPhysicalDeviceExtensionSupport(dev) ==
    Range(requestedDeviceExtensions) \ dev.extensions = {}

\* ------------------------------------------------------ swap chain support
querySwapChainSupport(dev) ==
    [formats |-> dev.formats, presentModes |-> dev.presentModes]

\* ------------------------------------------------------------ the scorer
\* The rating with the device-extension requirement left out.
ratePhysicalDevice_NoExtensionCheck(dev) ==
    LET bonus == IF dev.deviceType = VK_PHYSICAL_DEVICE_TYPE_DISCRETE_GPU
                     THEN 0 + DiscreteBonus ELSE 0
        score == AddAssignU32(bonus, dev.maxImageDimension2D)
        swapChainSupport == querySwapChainSupport(dev)
    IN  IF ~dev.geometryShader THEN 0
        ELSE IF ~isComplete(findQueueFamilies(dev)) THEN 0
        ELSE IF swapChainSupport.formats = <<>>
                \/ swapChainSupport.presentModes = <<>> THEN 0
        ELSE score

\* The rating with the queue-family requirement left out.
ratePhysicalDevice_NoQueueCheck(dev) ==
    LET bonus == IF dev.deviceType = VK_PHYSICAL_DEVICE_TYPE_DISCRETE_GPU
                     THEN 0 + DiscreteBonus ELSE 0
        score == AddAssignU32(bonus, dev.maxImageDimension2D)
        swapChainSupport == querySwapChainSupport(dev)
    IN  IF ~dev.geometryShader THEN 0
        ELSE IF ~checkPhysicalDeviceExtensionSupport(dev) THEN 0
        ELSE IF swapChainSupport.formats = <<>>
                \/ swapChainSupport.presentModes = <<>> THEN 0
        ELSE score

ratePhysicalDevice(dev) ==
    LET bonus == IF dev.deviceType = VK_PHYSICAL_DEVICE_TYPE_DISCRETE_GPU
                     THEN 0 + DiscreteBonus ELSE 0
        score == AddAssignU32(bonus, dev.maxImageDimension2D)
        swapChainSupport == querySwapChainSupport(dev)
    IN  IF ~dev.geometryShader THEN 0
        ELSE IF ~isComplete(findQueueFamilies(dev)) THEN 0
        ELSE IF ~checkPhysicalDeviceExtensionSupport(dev) THEN 0
        ELSE IF swapChainSupport.formats = <<>>
                \/ swapChainSupport.presentModes = <<>> THEN 0
        ELSE score

\* ------------------------------------------------ capability negotiation
\* Names the driver and the windowing library may report.
LayerUniverse ==
    {"VK_LAYER_LUNARG_standard_validation", "VK_LAYER_LUNARG_api_dump"}

ExtensionUniverse ==
    {"VK_KHR_surface", "VK_KHR_win32_surface", VK_EXT_DEBUG_REPORT_EXTENSION_NAME}

\* glfwGetRequiredInstanceExtensions: nothing (no Vulkan support found) or
\* the surface extension and the platform's surface extension.
GlfwExtensionLists == { <<>>, <<"VK_KHR_surface", "VK_KHR_win32_surface">> }

VkResults == {"VK_SUCCESS", "VK_ERROR_INITIALIZATION_FAILED"}

\* The check passing whatever the driver lists.
checkValidationLayerSupport_Always(layers) == TRUE

\* TRUE iff every requested layer is among the layers the driver lists.
checkValidationLayerSupport(layers) ==
    \A i \in 1..Len(requestedLayers) : requestedLayers[i] \in layers

\* The list getRequestedExtensions builds before it checks it.
RequestedExtensions(glfw) ==
    glfw \o (IF enableValidationLayers
                 THEN <<VK_EXT_DEBUG_REPORT_EXTENSION_NAME>> ELSE <<>>)

\* getRequestedExtensions: throws at the first requested extension the driver
\* does not list, and otherwise returns the requested list.
getRequestedExtensions(glfw, available) ==
    LET requestedExtensions == RequestedExtensions(glfw)
    IN  [ thrown     |-> \E i \in 1..Len(requestedExtensions) :
                             requestedExtensions[i] \notin available,
          extensions |-> requestedExtensions ]

\* ------------------------------------------------------ the device selector
\* std::multimap<int, VkPhysicalDevice> as the sequence of its pairs in
\* iteration order: ascending keys, equal keys in insertion order.
MultimapPair(key, value) == [first |-> key, second |-> value]

\* An insertion that puts the pair before the pairs of an equal key.
MultimapInsert_LowerBound(m, pair) ==
    LET k == Cardinality({j \in 1..Len(m) : m[j].first < pair.first})
    IN  SubSeq(m, 1, k) \o <<pair>> \o SubSeq(m, k + 1, Len(m))

\* multimap::insert: the pair goes at the upper bound of its key.
MultimapInsert(m, pair) ==
    LET k == Cardinality({j \in 1..Len(m) : m[j].first <= pair.first})
    IN  SubSeq(m, 1, k) \o <<pair>> \o SubSeq(m, k + 1, Len(m))

rbegin(m) == m[Len(m)]

\* The rating loop of pickPhysicalDevice from device i on; a device's handle
\* is its position in the enumeration.
RECURSIVE RateAll(_, _, _)
RateAll(devs, i, m) ==
    IF i > Len(devs)
        THEN m
        ELSE RateAll(devs, i + 1,
                     MultimapInsert(m, MultimapPair(ratePhysicalDevice(devs[i]), i)))

\* The devices the driver may enumerate in the bootstrap sequence: devices
\* that meet every requirement, of either type, of three image dimensions
\* (0, 8192, 2^31) and with one shared or two separate queue families, and
\* devices that lack exactly one requirement.
SharedFamily == [queueCount |-> 1, graphicsBit |-> TRUE, presentSupport |-> TRUE]
GraphicsFamily == [queueCount |-> 1, graphicsBit |-> TRUE, presentSupport |-> FALSE]
PresentFamily == [queueCount |-> 1, graphicsBit |-> FALSE, presentSupport |-> TRUE]

UsableDevices ==
    { PhysicalDevice(t, d, TRUE, f, {"VK_KHR_swapchain", "VK_KHR_maintenance1"},
                     <<"B8G8R8A8_UNORM">>, <<"FIFO">>) :
        t \in DeviceTypes,
        d \in {U32(0, 0), U32(0, 8192), U32(32768, 0)},
        f \in { <<SharedFamily>>, <<GraphicsFamily, PresentFamily>> } }

DeficientDevices ==
    LET t == VK_PHYSICAL_DEVICE_TYPE_DISCRETE_GPU
        d == U32(0, 8192)
        f == <<SharedFamily>>
        e == {"VK_KHR_swapchain", "VK_KHR_maintenance1"}
    IN  { PhysicalDevice(t, d, FALSE, f, e, <<"B8G8R8A8_UNORM">>, <<"FIFO">>),
          PhysicalDevice(t, d, TRUE, <<GraphicsFamily>>, e, <<"B8G8R8A8_UNORM">>, <<"FIFO">>),
          PhysicalDevice(t, d, TRUE, f, {"VK_KHR_maintenance1"}, <<"B8G8R8A8_UNORM">>, <<"FIFO">>),
          PhysicalDevice(t, d, TRUE, f, e, <<>>, <<"FIFO">>),
          PhysicalDevice(t, d, TRUE, f, e, <<"B8G8R8A8_UNORM">>, <<>>) }

EnumerableDevices == UsableDevices \cup DeficientDevices

\* ---------------------------------------------------- the logical device
RECURSIVE SortedSeq(_)
SortedSeq(S) ==
    IF S = {}
        THEN <<>>
        ELSE LET least == CHOOSE x \in S : \A y \in S : x <= y
             IN  <<least>> \o SortedSeq(S \ {least})

DeviceQueueCreateInfo(queueFamily) ==
    [ queueFamilyIndex |-> queueFamily,
      queueCount       |-> 1,
      pQueuePriorities |-> queuePriority ]

\* One request for each of the two indices, equal or not.
QueueCreateInfos_NoDedup(indices) ==
    << DeviceQueueCreateInfo(indices.graphicsFamily),
       DeviceQueueCreateInfo(indices.presentFamily) >>

\* One request for each element of the std::set of the two indices, in the
\* set's ascending order.
QueueCreateInfos(indices) ==
    LET uniqueQueueFamilies == {indices.graphicsFamily, indices.presentFamily}
        ordered == SortedSeq(uniqueQueueFamilies)
    IN  [i \in 1..Len(ordered) |-> DeviceQueueCreateInfo(ordered[i])]

\* The handle vkGetDeviceQueue yields: one per (family, queue index).
vkGetDeviceQueue(queueFamilyIndex, queueIndex) ==
    [queueFamilyIndex |-> queueFamilyIndex, queueIndex |-> queueIndex]

NoQueue == vkGetDeviceQueue(Unresolved, Unresolved)

\* ------------------------------------------------------------------ state
VARIABLES
    pc,                       \* the statement of main/run/initVulkan to execute next
    exception,                \* message of the runtime_error in flight or caught
    exitStatus,               \* what main returned, "running" until it returns
    window, instance, callback, surface, device,   \* owned handles
    physicalDevice,           \* the selected device's handle
    graphicsQueue, presentQueue,
    availableLayers, availableExtensions, glfwExtensions,   \* the environment
    physicalDevices,          \* the driver's enumeration
    physicalDevicesAvailable, \* the multimap of pickPhysicalDevice
    candidate,                \* the device the rating loop is at
    queueFamilyIndices,       \* its resolved pair (pickPhysicalDevice's local)
    physicalDeviceScore,      \* its score (pickPhysicalDevice's local)
    indices,                  \* the pair createLogicalDevice resolved
    queueCreateInfos,         \* the queue requests of createLogicalDevice
    acquired,                 \* resources in the order they were acquired
    released,                 \* resources in the order they were released
    polls,                    \* iterations of the event loop so far
    cerr                      \* the messages main's handler wrote to std::cerr

handles == <<window, instance, callback, surface, device>>
queues == <<graphicsQueue, presentQueue>>
environment == <<availableLayers, availableExtensions, glfwExtensions>>
selection == <<physicalDevices, physicalDevicesAvailable, physicalDevice>>
loopLocals == <<candidate, queueFamilyIndices, physicalDeviceScore>>
factory == <<indices, queueCreateInfos>>
vars == <<pc, exception, exitStatus, cerr, handles, queues, environment, selection,
          loopLocals, factory, acquired, released, polls>>

\* The members and locals before main calls run.
InitApplication ==
    /\ exception = "none"
    /\ exitStatus = "running"
    /\ window = "uninitialized"
    /\ instance = "uninitialized"
    /\ callback = "uninitialized"
    /\ surface = "uninitialized"
    /\ device = "uninitialized"
    /\ physicalDevice = VK_NULL_HANDLE
    /\ graphicsQueue = NoQueue
    /\ presentQueue = NoQueue
    /\ physicalDevices = <<>>
    /\ physicalDevicesAvailable = <<>>
    /\ queueFamilyIndices = QueueFamilyIndices(Unresolved, Unresolved)
    /\ physicalDeviceScore = 0
    /\ indices = QueueFamilyIndices(Unresolved, Unresolved)
    /\ queueCreateInfos = <<>>
    /\ acquired = <<>>
    /\ released = <<>>
    /\ polls = 0
    /\ cerr = <<>>

Init ==
    /\ InitApplication
    /\ pc = "initWindow"
    /\ candidate = NoDevice
    /\ availableLayers \in SUBSET LayerUniverse
    /\ availableExtensions \in SUBSET ExtensionUniverse
    /\ glfwExtensions \in GlfwExtensionLists

\* A throw that run swallows, going on to the main loop.
Throw_Continue(message) ==
    /\ exception' = message
    /\ pc' = "mainLoop"

\* throw std::runtime_error(message): nothing between the throw and the
\* handler in main catches it.
Throw(message) ==
    /\ exception' = message
    /\ pc' = "catch"

\* ---------------------------------------------------------------- actions
\* initWindow: glfwInit and glfwCreateWindow.
initWindow ==
    /\ pc = "initWindow"
    /\ window' = "created"
    /\ pc' = "createInstance"
    /\ UNCHANGED <<exception, exitStatus, cerr, instance, callback, surface, device,
                   queues, environment, selection, loopLocals, factory,
                   acquired, released, polls>>

\* createInstance: the layer check, then the extension check, then
\* vkCreateInstance, whose result the driver decides.
createInstance ==
    /\ pc = "createInstance"
    /\ \E result \in VkResults :
         IF enableValidationLayers /\ ~checkValidationLayerSupport(availableLayers)
             THEN Throw(UnsupportedLayer) /\ UNCHANGED <<instance, acquired>>
         ELSE IF getRequestedExtensions(glfwExtensions, availableExtensions).thrown
             THEN Throw(UnsupportedExtension) /\ UNCHANGED <<instance, acquired>>
         ELSE IF result # "VK_SUCCESS"
             THEN Throw(ContextCreationFailed) /\ UNCHANGED <<instance, acquired>>
         ELSE /\ instance' = "created"
              /\ acquired' = Append(acquired, "instance")
              /\ pc' = "setupDebugCallback"
              /\ UNCHANGED exception
    /\ UNCHANGED <<exitStatus, cerr, window, callback, surface, device, queues,
                   environment, selection, loopLocals, factory, released, polls>>

\* setupDebugCallback: nothing without validation layers; otherwise
\* CreateDebugReportCallbackEXT, whose result the driver decides.
setupDebugCallback ==
    /\ pc = "setupDebugCallback"
    /\ IF ~enableValidationLayers
           THEN pc' = "createSurface" /\ UNCHANGED <<exception, callback, acquired>>
           ELSE \E result \in VkResults :
                  IF result # "VK_SUCCESS"
                      THEN Throw(DebugSinkSetupFailed) /\ UNCHANGED <<callback, acquired>>
                      ELSE /\ callback' = "created"
                           /\ acquired' = Append(acquired, "callback")
                           /\ pc' = "createSurface"
                           /\ UNCHANGED exception
    /\ UNCHANGED <<exitStatus, cerr, window, instance, surface, device, queues,
                   environment, selection, loopLocals, factory, released, polls>>

\* createSurface: glfwCreateWindowSurface, whose result the library decides.
createSurface ==
    /\ pc = "createSurface"
    /\ \E result \in VkResults :
         IF result # "VK_SUCCESS"
             THEN Throw(SurfaceCreationFailed) /\ UNCHANGED <<surface, acquired>>
             ELSE /\ surface' = "created"
                  /\ acquired' = Append(acquired, "surface")
                  /\ pc' = "pickPhysicalDevice"
                  /\ UNCHANGED exception
    /\ UNCHANGED <<exitStatus, cerr, window, instance, callback, device, queues,
                   environment, selection, loopLocals, factory, released, polls>>

\* pickPhysicalDevice: the driver enumerates its devices; each is rated and
\* inserted into the multimap; the last pair of the multimap is selected when
\* its score is positive.
pickPhysicalDevice ==
    /\ pc = "pickPhysicalDevice"
    /\ \E devs \in SeqsUpTo(EnumerableDevices, MaxDevices) :
         /\ physicalDevices' = devs
         /\ IF Len(devs) = 0
                THEN /\ Throw(NoDeviceDetected)
                     /\ UNCHANGED <<physicalDevicesAvailable, physicalDevice,
                                    loopLocals, acquired>>
                ELSE LET rated == RateAll(devs, 1, <<>>)
                     IN  /\ physicalDevicesAvailable' = rated
                         /\ candidate' = devs[Len(devs)]
                         /\ queueFamilyIndices' = findQueueFamilies(devs[Len(devs)])
                         /\ physicalDeviceScore' = ratePhysicalDevice(devs[Len(devs)])
                         /\ IF rbegin(rated).first > 0
                                THEN /\ physicalDevice' = rbegin(rated).second
                                     /\ acquired' = Append(acquired, "physicalDevice")
                                     /\ pc' = "createLogicalDevice"
                                     /\ UNCHANGED exception
                                ELSE /\ Throw(NoSuitableDevice)
                                     /\ UNCHANGED <<physicalDevice, acquired>>
    /\ UNCHANGED <<exitStatus, cerr, handles, queues, environment, factory,
                   released, polls>>

\* createLogicalDevice: the pair is resolved again for the selected device,
\* one queue is requested per distinct family, and vkCreateDevice, whose
\* result the driver decides, is followed by the two vkGetDeviceQueue calls.
createLogicalDevice ==
    /\ pc = "createLogicalDevice"
    /\ LET resolved == findQueueFamilies(physicalDevices[physicalDevice])
       IN  /\ indices' = resolved
           /\ queueCreateInfos' = QueueCreateInfos(resolved)
           /\ \E result \in VkResults :
                IF result # "VK_SUCCESS"
                    THEN /\ Throw(LogicalDeviceCreationFailed)
                         /\ UNCHANGED <<device, queues, acquired>>
                    ELSE /\ device' = "created"
                         /\ graphicsQueue' = vkGetDeviceQueue(resolved.graphicsFamily, 0)
                         /\ presentQueue' = vkGetDeviceQueue(resolved.presentFamily, 0)
                         /\ acquired' = acquired \o <<"device", "queues">>
                         /\ pc' = "mainLoop"
                         /\ UNCHANGED exception
    /\ UNCHANGED <<exitStatus, cerr, window, instance, callback, surface,
                   environment, selection, loopLocals, released, polls>>

\* mainLoop, the window still open: one glfwPollEvents.
mainLoopPoll ==
    /\ pc = "mainLoop"
    /\ polls < MaxPolls
    /\ polls' = polls + 1
    /\ UNCHANGED <<pc, exception, exitStatus, cerr, handles, queues, environment,
                   selection, loopLocals, factory, acquired, released>>

\* mainLoop, glfwWindowShouldClose: the loop ends.
mainLoopExit ==
    /\ pc = "mainLoop"
    /\ pc' = "cleanup"
    /\ UNCHANGED <<exception, exitStatus, cerr, handles, queues, environment,
                   selection, loopLocals, factory, acquired, released, polls>>

\* cleanup: the destroy calls in the order the function makes them.
cleanup ==
    /\ pc = "cleanup"
    /\ device' = "destroyed"
    /\ callback' = "destroyed"
    /\ surface' = "destroyed"
    /\ instance' = "destroyed"
    /\ window' = "destroyed"
    /\ released' = released \o <<"device", "callback", "surface", "instance">>
    /\ pc' = "return"
    /\ UNCHANGED <<exception, exitStatus, cerr, queues, environment, selection,
                   loopLocals, factory, acquired, polls>>

\* main, run returned: return EXIT_SUCCESS.
mainReturn ==
    /\ pc = "return"
    /\ exitStatus' = EXIT_SUCCESS
    /\ pc' = "exited"
    /\ UNCHANGED <<exception, cerr, handles, queues, environment, selection,
                   loopLocals, factory, acquired, released, polls>>

\* main, the handler of std::runtime_error: the message is printed and
\* EXIT_FAILURE returned.
mainCatch ==
    /\ pc = "catch"
    /\ cerr' = Append(cerr, exception)
    /\ exitStatus' = EXIT_FAILURE
    /\ pc' = "exited"
    /\ UNCHANGED <<exception, handles, queues, environment, selection,
                   loopLocals, factory, acquired, released, polls>>

Next ==
    \/ initWindow
    \/ createInstance
    \/ setupDebugCallback
    \/ createSurface
    \/ pickPhysicalDevice
    \/ createLogicalDevice
    \/ mainLoopPoll
    \/ mainLoopExit
    \/ cleanup
    \/ mainReturn
    \/ mainCatch

Spec == Init /\ [][Next]_vars

\* ------------------------------------- the rating functions on one device
\* The body of the rating loop of pickPhysicalDevice applied to one device
\* the driver may report: findQueueFamilies, then ratePhysicalDevice.
InitRating ==
    /\ InitApplication
    /\ pc = "findQueueFamilies"
    /\ candidate \in AllDevices
    /\ availableLayers = LayerUniverse
    /\ availableExtensions = ExtensionUniverse
    /\ glfwExtensions = <<"VK_KHR_surface", "VK_KHR_win32_surface">>

resolveCandidate ==
    /\ pc = "findQueueFamilies"
    /\ queueFamilyIndices' = findQueueFamilies(candidate)
    /\ pc' = "ratePhysicalDevice"
    /\ UNCHANGED <<exception, exitStatus, cerr, handles, queues, environment,
                   selection, candidate, physicalDeviceScore, factory,
                   acquired, released, polls>>

rateCandidate ==
    /\ pc = "ratePhysicalDevice"
    /\ physicalDeviceScore' = ratePhysicalDevice(candidate)
    /\ pc' = "rated"
    /\ UNCHANGED <<exception, exitStatus, cerr, handles, queues, environment,
                   selection, candidate, queueFamilyIndices, factory,
                   acquired, released, polls>>

NextRating == resolveCandidate \/ rateCandidate

SpecRating == InitRating /\ [][NextRating]_vars

\* ------------------------------------------------ vocabulary of the claims
Enumerated == 1..Len(physicalDevices)

\* The score the program gives each enumerated device, by its handle.
Scores == [i \in Enumerated |-> ratePhysicalDevice(physicalDevices[i])]

Maximum(f) == CHOOSE s \in {f[i] : i \in DOMAIN f} : \A j \in DOMAIN f : f[j] <= s

\* pickPhysicalDevice has been called and has returned or thrown.
PickRan == surface # "uninitialized" /\ pc # "pickPhysicalDevice"

\* The 0-based indices of the families of dev that have a queue and support
\* graphics, and of those that have a queue and can present to the surface.
GraphicsFamilies(dev) ==
    {i \in 0..(Len(dev.queueFamilies) - 1) :
        dev.queueFamilies[i + 1].queueCount > 0 /\ dev.queueFamilies[i + 1].graphicsBit}

PresentFamilies(dev) ==
    {i \in 0..(Len(dev.queueFamilies) - 1) :
        dev.queueFamilies[i + 1].queueCount > 0 /\ dev.queueFamilies[i + 1].presentSupport}

Least(S) == CHOOSE x \in S : \A y \in S : x <= y

Greatest(S) == CHOOSE x \in S : \A y \in S : y <= x

MissingDeviceExtension(dev) ==
    \E i \in 1..Len(requestedDeviceExtensions) :
        requestedDeviceExtensions[i] \notin dev.extensions

\* The four hard requirements, stated on what the driver reports.
HardRequirementsMet(dev) ==
    /\ dev.geometryShader
    /\ GraphicsFamilies(dev) # {}
    /\ PresentFamilies(dev) # {}
    /\ ~MissingDeviceExtension(dev)
    /\ dev.formats # <<>>
    /\ dev.presentModes # <<>>

\* ----------------------------------------------------------------- C1
\* C1: whenever the enumeration is non-empty and its maximum score is
\* positive, pickPhysicalDevice selects a device whose score is the maximum,
\* and no device enumerated after the selected one has that score (the last
\* of the tied devices wins).
C1_LastOfMaximumWins ==
    (PickRan /\ physicalDevices # <<>>) =>
        LET score == Scores
            best  == Maximum(score)
        IN  best > 0 =>
              /\ physicalDevice \in Enumerated
              /\ score[physicalDevice] = best
              /\ \A j \in Enumerated : score[j] = best => j <= physicalDevice

\* Two devices tie at a positive maximum and the later one is selected.
C1_Witness ==
    /\ PickRan
    /\ physicalDevices # <<>>
    /\ LET score == Scores
           best  == Maximum(score)
       IN  \E i, j \in Enumerated :
             /\ i < j
             /\ score[i] = best
             /\ score[j] = best
             /\ best > 0
             /\ physicalDevice = j

\* ----------------------------------------------------------------- C2
\* C2: pickPhysicalDevice fails with NoSuitableDevice iff at least one device
\* is enumerated and every enumerated device scores 0, and with
\* NoDeviceDetected iff no device is enumerated (then nothing is scored and
\* NoSuitableDevice is not raised).
C2_FailureKinds ==
    PickRan =>
        /\ (exception = NoSuitableDevice)
              <=> (physicalDevices # <<>> /\ \A i \in Enumerated : Scores[i] = 0)
        /\ (exception = NoDeviceDetected) <=> (physicalDevices = <<>>)
        /\ physicalDevices = <<>> => physicalDevicesAvailable = <<>>

\* ----------------------------------------------------------------- C3
\* C3: ratePhysicalDevice returns exactly 0 for every device without the
\* geometry-shader feature, or whose resolved queue-family pair is
\* incomplete, or that misses a required device extension, or whose format
\* list or presentation-mode list is empty, whatever its type and limit.
C3_HardRequirementsScoreZero ==
    (pc = "rated"
        /\ (\/ ~candidate.geometryShader
            \/ ~(queueFamilyIndices.graphicsFamily >= 0
                    /\ queueFamilyIndices.presentFamily >= 0)
            \/ MissingDeviceExtension(candidate)
            \/ candidate.formats = <<>>
            \/ candidate.presentModes = <<>>))
    => physicalDeviceScore = 0

\* A discrete device of limit 8192 that lacks only the required extension
\* has been rated 0.
C3_Witness ==
    /\ pc = "rated"
    /\ candidate.deviceType = VK_PHYSICAL_DEVICE_TYPE_DISCRETE_GPU
    /\ candidate.maxImageDimension2D = U32(0, 8192)
    /\ candidate.geometryShader
    /\ queueFamilyIndices.graphicsFamily >= 0
    /\ queueFamilyIndices.presentFamily >= 0
    /\ MissingDeviceExtension(candidate)
    /\ candidate.formats # <<>>
    /\ candidate.presentModes # <<>>
    /\ physicalDeviceScore = 0

\* ----------------------------------------------------------------- C4
\* C4: for a device that meets the four hard requirements, whatever its
\* limit in the unsigned 32-bit range, ratePhysicalDevice returns the
\* mathematical sum of the bonus (1000 for a discrete GPU, else 0) and the
\* limit: the score is not negative and its two 16-bit halves are those of
\* the sum.
C4_ScoreIsBonusPlusLimit ==
    (pc = "rated" /\ HardRequirementsMet(candidate)) =>
        LET bonus == IF candidate.deviceType = VK_PHYSICAL_DEVICE_TYPE_DISCRETE_GPU
                         THEN 1000 ELSE 0
            low   == candidate.maxImageDimension2D[2] + bonus
            high  == candidate.maxImageDimension2D[1] + (low \div Half)
        IN  /\ physicalDeviceScore >= 0
            /\ physicalDeviceScore \div Half = high
            /\ physicalDeviceScore % Half = low % Half

\* ----------------------------------------------------------------- C5
\* C5: whenever at least one enumerated device meets the four hard
\* requirements, pickPhysicalDevice selects a device and does not fail.
C5_SuitableDeviceIsSelected ==
    (PickRan /\ \E i \in Enumerated : HardRequirementsMet(physicalDevices[i])) =>
        /\ physicalDevice \in Enumerated
        /\ exception \notin {NoSuitableDevice, NoDeviceDetected}

\* ----------------------------------------------------------------- C6
\* C6 as stated: graphicsFamily is the first (lowest) index whose family
\* supports graphics and presentFamily the first index whose family supports
\* presentation; a field is unresolved when no family qualifies.
C6_FirstIndexResolved ==
    pc \in {"ratePhysicalDevice", "rated"} =>
        /\ queueFamilyIndices.graphicsFamily =
              (IF GraphicsFamilies(candidate) = {}
                   THEN -1 ELSE Least(GraphicsFamilies(candidate)))
        /\ queueFamilyIndices.presentFamily =
              (IF PresentFamilies(candidate) = {}
                   THEN -1 ELSE Least(PresentFamilies(candidate)))

\* The index at which the scan of findQueueFamilies stops: the first index
\* by which a graphics family and a presentation family have both been seen,
\* or the last index of the list.
StopIndex(dev) ==
    LET both == {i \in 0..(Len(dev.queueFamilies) - 1) :
                    /\ \E g \in GraphicsFamilies(dev) : g <= i
                    /\ \E p \in PresentFamilies(dev) : p <= i}
    IN  IF both = {} THEN Len(dev.queueFamilies) - 1 ELSE Least(both)

\* C6 as amended: graphicsFamily is the highest index, among the families
\* scanned before the scan stops, whose family has a queue and supports
\* graphics, and presentFamily the highest such index whose family can
\* present; a field is unresolved exactly when no family qualifies for it.
C6_LastScannedIndexResolved ==
    pc \in {"ratePhysicalDevice", "rated"} =>
        LET scannedGraphics == {i \in GraphicsFamilies(candidate) : i <= StopIndex(candidate)}
            scannedPresent  == {i \in PresentFamilies(candidate) : i <= StopIndex(candidate)}
        IN  /\ queueFamilyIndices.graphicsFamily =
                  (IF scannedGraphics = {} THEN -1 ELSE Greatest(scannedGraphics))
            /\ queueFamilyIndices.presentFamily =
                  (IF scannedPresent = {} THEN -1 ELSE Greatest(scannedPresent))
            /\ (queueFamilyIndices.graphicsFamily = -1) <=> (GraphicsFamilies(candidate) = {})
            /\ (queueFamilyIndices.presentFamily = -1) <=> (PresentFamilies(candidate) = {})

\* Two families support graphics, the pair is complete, and the resolved
\* graphics index is the later of the two.
C6_Witness ==
    /\ pc \in {"ratePhysicalDevice", "rated"}
    /\ Cardinality(GraphicsFamilies(candidate)) >= 2
    /\ queueFamilyIndices.presentFamily >= 0
    /\ queueFamilyIndices.graphicsFamily > Least(GraphicsFamilies(candidate))

\* ----------------------------------------------------------------- C7
\* createLogicalDevice has built its queue requests and called vkCreateDevice.
LogicalDeviceRequested ==
    physicalDevice # VK_NULL_HANDLE /\ pc # "createLogicalDevice"

\* C7: createLogicalDevice requests exactly one queue, of count 1 and
\* priority 1.0, for each distinct value among the resolved graphicsFamily
\* and presentFamily (one request when they are equal, two when they
\* differ); after a successful creation the graphics queue is queue 0 of
\* graphicsFamily and the present queue is queue 0 of presentFamily, the
\* same handle when the families coincide.
C7_OneQueuePerDistinctFamily ==
    /\ LogicalDeviceRequested =>
         /\ Len(queueCreateInfos) =
               (IF indices.graphicsFamily = indices.presentFamily THEN 1 ELSE 2)
         /\ {queueCreateInfos[i].queueFamilyIndex : i \in 1..Len(queueCreateInfos)}
               = {indices.graphicsFamily, indices.presentFamily}
         /\ \A i \in 1..Len(queueCreateInfos) :
               /\ queueCreateInfos[i].queueCount = 1
               /\ queueCreateInfos[i].pQueuePriorities = 1
    /\ device # "uninitialized" =>
         /\ LogicalDeviceRequested
         /\ graphicsQueue.queueFamilyIndex = indices.graphicsFamily
         /\ graphicsQueue.queueIndex = 0
         /\ presentQueue.queueFamilyIndex = indices.presentFamily
         /\ presentQueue.queueIndex = 0
         /\ (indices.graphicsFamily = indices.presentFamily)
               <=> (graphicsQueue = presentQueue)

\* The device is created for a selected device whose single family serves
\* both roles: one request, one queue handle.
C7_Witness ==
    /\ device = "created"
    /\ indices.graphicsFamily = indices.presentFamily
    /\ indices.graphicsFamily >= 0
    /\ Len(queueCreateInfos) = 1
    /\ graphicsQueue = presentQueue

\* ----------------------------------------------------------------- C8
CreateInstanceRan == pc \notin {"initWindow", "createInstance"}

\* vkCreateInstance has been called (and has succeeded or failed).
InstanceCreationCalled ==
    instance # "uninitialized" \/ exception = ContextCreationFailed

RequestedLayerAbsent ==
    \E i \in 1..Len(requestedLayers) : requestedLayers[i] \notin availableLayers

\* The extensions requested: those of the windowing library and, with
\* validation layers enabled, the debug-report extension.
RequestedExtensionAbsent ==
    \/ \E i \in 1..Len(glfwExtensions) : glfwExtensions[i] \notin availableExtensions
    \/ enableValidationLayers
          /\ VK_EXT_DEBUG_REPORT_EXTENSION_NAME \notin availableExtensions

\* C8 as stated: vkCreateInstance is called only if every requested layer
\* and every requested extension is available; an absent layer makes
\* createInstance fail with UnsupportedLayer and an absent extension makes it
\* fail with UnsupportedExtension, in both cases with no instance created.
C8_NegotiationAsStated ==
    CreateInstanceRan =>
        /\ InstanceCreationCalled =>
              ~RequestedLayerAbsent /\ ~RequestedExtensionAbsent
        /\ RequestedLayerAbsent =>
              exception = UnsupportedLayer /\ ~InstanceCreationCalled
        /\ RequestedExtensionAbsent =>
              exception = UnsupportedExtension /\ ~InstanceCreationCalled

\* C8 as amended: as stated, except that an absent extension makes
\* createInstance fail with UnsupportedExtension when every requested layer
\* is available (the layer check comes first and an absent layer wins).
C8_NegotiationPrecedesCreation ==
    CreateInstanceRan =>
        /\ InstanceCreationCalled =>
              ~RequestedLayerAbsent /\ ~RequestedExtensionAbsent
        /\ RequestedLayerAbsent =>
              exception = UnsupportedLayer /\ ~InstanceCreationCalled
        /\ (RequestedExtensionAbsent /\ ~RequestedLayerAbsent) =>
              exception = UnsupportedExtension /\ ~InstanceCreationCalled

\* Every requested layer is available, a requested extension is absent and
\* createInstance has failed with UnsupportedExtension, no instance created.
C8_Witness ==
    /\ CreateInstanceRan
    /\ ~RequestedLayerAbsent
    /\ RequestedExtensionAbsent
    /\ exception = UnsupportedExtension
    /\ instance = "uninitialized"

\* ----------------------------------------------------------------- C9
Reverse(s) == [i \in 1..Len(s) |-> s[Len(s) + 1 - i]]

OwnedResources == {"instance", "callback", "surface", "device"}

IsOwned(r) == r \in OwnedResources

IsPrefix(s, t) == Len(s) <= Len(t) /\ SubSeq(t, 1, Len(s)) = s

\* C9: resources are acquired in the order instance, debug callback,
\* surface, physical device, logical device, queues, and once cleanup has
\* run on the successful path the owned resources have been released in the
\* exact reverse of the order in which they were acquired (device, surface,
\* debug callback, instance).
C9_TeardownReversesAcquisition ==
    /\ IsPrefix(acquired, <<"instance", "callback", "surface",
                            "physicalDevice", "device", "queues">>)
    /\ (pc \in {"return", "exited"} /\ exception = "none") =>
          released = Reverse(SelectSeq(acquired, IsOwned))

\* ----------------------------------------------------------------- C10
\* C10: when a step of the bootstrap sequence has failed and the process
\* has terminated, every owned resource acquired before the failure has
\* been released.
C10_ReleasedOnFailure ==
    (pc = "exited" /\ exitStatus = EXIT_FAILURE) =>
        \A i \in 1..Len(acquired) :
            IsOwned(acquired[i]) => acquired[i] \in Range(released)

\* ----------------------------------------------------------------- C11
BootstrapSteps ==
    {"createInstance", "setupDebugCallback", "createSurface",
     "pickPhysicalDevice", "createLogicalDevice"}

\* C11: the step at which a bootstrap step first fails acquires nothing and
\* hands control to the handler in main; from then on the only step taken is
\* the handler's, which writes the message to std::cerr and ends the process
\* with the non-zero status EXIT_FAILURE: no bootstrap step, no main-loop
\* iteration, no cleanup and no retry follows the failure. The process ends
\* with EXIT_SUCCESS only if no step failed and everything was acquired.
C11_FailFast ==
    [][ /\ (exception = "none" /\ exception' # "none") =>
              /\ pc \in BootstrapSteps
              /\ pc' = "catch"
              /\ UNCHANGED <<exitStatus, cerr, handles, queues, acquired,
                             released, polls>>
        /\ exception # "none" =>
              /\ pc = "catch"
              /\ pc' = "exited"
              /\ exitStatus' = EXIT_FAILURE
              /\ exitStatus' # 0
              /\ cerr' = <<exception>>
              /\ UNCHANGED <<exception, handles, queues, selection, factory,
                             acquired, released, polls>>
        /\ (pc' = "exited" /\ exitStatus' = EXIT_SUCCESS) =>
              /\ exception' = "none"
              /\ cerr' = <<>>
              /\ acquired' = <<"instance", "callback", "surface",
                               "physicalDevice", "device", "queues">>
      ]_vars

\* Device selection failed after three resources were acquired: the process
\* has ended with EXIT_FAILURE, the message reported, no device created and
\* no main-loop iteration made.
C11_Witness ==
    /\ pc = "exited"
    /\ exception = NoSuitableDevice
    /\ acquired = <<"instance", "callback", "surface">>
    /\ exitStatus = EXIT_FAILURE
    /\ cerr = <<NoSuitableDevice>>
    /\ device = "uninitialized"
    /\ polls = 0

\* ----------------------------------------------------------------- C12
\* C12: whenever pickPhysicalDevice has selected a device, that device meets
\* the four hard requirements; the pair createLogicalDevice resolves for it
\* is complete, and every family index createLogicalDevice puts in a queue
\* request or passes to vkGetDeviceQueue is an index of a queue family of
\* the selected device (at least 0, below the number of families), never
\* the unresolved value -1.
C12_SelectedDeviceIsUsable ==
    physicalDevice # VK_NULL_HANDLE =>
        LET chosen   == physicalDevices[physicalDevice]
            families == 0..(Len(chosen.queueFamilies) - 1)
        IN  /\ physicalDevice \in Enumerated
            /\ HardRequirementsMet(chosen)
            /\ LogicalDeviceRequested =>
                  /\ indices.graphicsFamily \in GraphicsFamilies(chosen)
                  /\ indices.presentFamily \in PresentFamilies(chosen)
                  /\ queueCreateInfos # <<>>
                  /\ \A i \in 1..Len(queueCreateInfos) :
                        /\ queueCreateInfos[i].queueFamilyIndex # -1
                        /\ queueCreateInfos[i].queueFamilyIndex \in families
            /\ device # "uninitialized" =>
                  /\ graphicsQueue.queueFamilyIndex # -1
                  /\ graphicsQueue.queueFamilyIndex \in families
                  /\ presentQueue.queueFamilyIndex # -1
                  /\ presentQueue.queueFamilyIndex \in families

\* A device was selected from an enumeration that also holds a device with
\* an incomplete pair, and the logical device was created with queues of two
\* distinct families of the selected device.
C12_Witness ==
    /\ device = "created"
    /\ \E i \in Enumerated :
          /\ i # physicalDevice
          /\ PresentFamilies(physicalDevices[i]) = {}
    /\ indices.graphicsFamily >= 0
    /\ indices.presentFamily >= 0
    /\ indices.graphicsFamily # indices.presentFamily
    /\ Len(queueCreateInfos) = 2

====
